---- MODULE Spec2Model ----
(***************************************************************************)
(* Model of surgical_queue_simulator.py: the module globals, the two simpy *)
(* processes patient_arrivals and operating_room, and run_simulation,      *)
(* called twice by main (baseline, then intervention).  main itself may    *)
(* run any number of times in one interpreter, as web_simulator.main does  *)
(* on every press of its button, so a run starts from whatever the runs    *)
(* before it left in the globals.                                          *)
(*                                                                         *)
(* Python lists are objects: the module globals and the returned results   *)
(* dictionary hold references to them.  `heap` is the store of list        *)
(* objects, a global such as weekly_queue_lengths holds an address.        *)
(*                                                                         *)
(* A simpy process runs without interruption from one yield to the next,   *)
(* so one action is one resumption of a process.                           *)
(***************************************************************************)
EXTENDS Integers, Sequences, FiniteSets, TLC

\* ---- bounds of the model ------------------------------------------------
MaxArrivals == 2
MaxBacklog == 1
MaxSlots == 2
MaxWeeks == 1

\* ---- program constants --------------------------------------------------
\* yield env.timeout(7)
PeriodLength == 7
\* simpy event priorities: env.process() schedules the Initialize event and
\* env.run(until=number) the stop event as URGENT, env.timeout() as NORMAL
URGENT == 0
NORMAL == 1

VARIABLES
    heap,                        \* list objects, by address
    patient_arrival_times,       \* global dict: patient id -> arrival time
    patient_wait_times,          \* global: address of a list
    weekly_queue_lengths,        \* global: address of a list
    weekly_surgeries_performed,  \* global: address of a list
    next_patient_id,             \* global counter
    current_patient_queue,       \* run_simulation's local list, shared by the two processes
    env,                         \* simpy.Environment: [now, events, eid]
    arrivals_pc,                 \* position of patient_arrivals: "start" or "loop"
    args,                        \* arguments of the running (or last) call
    pc,                          \* "idle": no call in progress, "running": inside env.run
    main_pc,                     \* main: "baseline" (next call is the baseline) or "intervention"
    config,                      \* main's inputs of this session
    baseline_results,            \* main's local: <<>> (unbound) or <<results dict>>
    intervention_results,        \* main's local: <<>> (unbound) or <<results dict>>
    raised,                      \* exception that ended the last call: "" or "ValueError"
    returned,                    \* what each call of this session returned, as it was at return time
    issued                       \* values returned by get_patient_id in this run, in order

vars == <<heap, patient_arrival_times, patient_wait_times, weekly_queue_lengths,
          weekly_surgeries_performed, next_patient_id, current_patient_queue,
          env, arrivals_pc, args, pc, main_pc, config, baseline_results,
          intervention_results, raised, returned, issued>>

\* ---- helpers ------------------------------------------------------------
Range(s) == {s[i] : i \in 1..Len(s)}

Min(a, b) == IF a <= b THEN a ELSE b

RECURSIVE Sum(_)
Sum(s) == IF s = <<>> THEN 0 ELSE Head(s) + Sum(Tail(s))

RECURSIVE GCD(_, _)
GCD(a, b) == IF b = 0 THEN a ELSE GCD(b, a % b)

\* np.mean(patient_wait_times) if patient_wait_times else 0, as a reduced fraction
Mean(s) ==
    IF s = <<>> THEN [num |-> 0, den |-> 1]
    ELSE LET g == GCD(Sum(s), Len(s))
         IN  [num |-> Sum(s) \div g, den |-> Len(s) \div g]

\* ---- Python objects -----------------------------------------------------
EmptyDict == [k \in {} |-> 0]

\* d[k] = v
DictSet(d, k, v) == (k :> v) @@ d

\* the entry is read but left in the dict
DictPopKeepsEntry(d, k) == d

\* d.pop(k): the dict without k (the value popped is d[k])
DictPop(d, k) == [x \in DOMAIN d \ {k} |-> d[x]]

\* pop() takes the last element
ListPopLast(q) == [item |-> q[Len(q)], rest |-> SubSeq(q, 1, Len(q) - 1)]

\* patient_queue_list.pop(0)
ListPop0(q) == [item |-> Head(q), rest |-> Tail(q)]

\* smallest address not in use
NewAddr(h) ==
    CHOOSE a \in 1..(Cardinality(DOMAIN h) + 1) :
        a \notin DOMAIN h /\ \A b \in 1..(a - 1) : b \in DOMAIN h

\* [] : a new empty list object
Alloc(h) == [a \in DOMAIN h \cup {NewAddr(h)} |-> IF a \in DOMAIN h THEN h[a] ELSE <<>>]

\* list objects no name refers to any more are freed
Collect(h, roots) == [a \in DOMAIN h \cap roots |-> h[a]]

\* the lists a results dict refers to
Refs(res) ==
    IF res = <<>> THEN {}
    ELSE {res[1].weekly_queue_lengths, res[1].weekly_surgeries, res[1].wait_times}

\* ---- simpy.Environment --------------------------------------------------
NewEnvironment == [now |-> 0, events |-> {}, eid |-> 0]

\* Environment.schedule: heappush (now + delay, priority, next eid, event)
Schedule(e, priority, delay, proc) ==
    [e EXCEPT !.events = @ \cup {[time |-> e.now + delay, priority |-> priority,
                                  eid |-> e.eid, proc |-> proc]},
              !.eid = @ + 1]

\* among events of one time and priority the one scheduled last goes first
BeforeLastScheduledFirst(a, b) ==
    \/ a.time < b.time
    \/ a.time = b.time /\ a.priority < b.priority
    \/ a.time = b.time /\ a.priority = b.priority /\ a.eid > b.eid

\* heap order of simpy's event queue: (time, priority, eid)
Before(a, b) ==
    \/ a.time < b.time
    \/ a.time = b.time /\ a.priority < b.priority
    \/ a.time = b.time /\ a.priority = b.priority /\ a.eid < b.eid

NextEvent(e) == CHOOSE a \in e.events : \A b \in e.events \ {a} : Before(a, b)

\* Environment.step: pop the first event and advance the clock to its time
Pop(e) == [e EXCEPT !.now = NextEvent(e).time, !.events = @ \ {NextEvent(e)}]

\* creation order swapped: operating_room registered before patient_arrivals
StartProcessesSwapped(e) ==
    Schedule(Schedule(e, URGENT, 0, "operating_room"), URGENT, 0, "patient_arrivals")

\* env.process(patient_arrivals(...)); env.process(operating_room(...))
StartProcesses(e) ==
    Schedule(Schedule(e, URGENT, 0, "patient_arrivals"), URGENT, 0, "operating_room")

\* the run is stopped one week later
UntilOneWeekLate(simulation_duration_weeks) ==
    (simulation_duration_weeks + 1) * PeriodLength + 1

\* env.run(until=simulation_duration_weeks * 7 + 1)
Until(simulation_duration_weeks) == simulation_duration_weeks * PeriodLength + 1

\* ---- get_patient_id -----------------------------------------------------
\* the counter is incremented twice
GetPatientIdSkips(n) == n + 2

\* next_patient_id += 1; return next_patient_id
GetPatientId(n) == n + 1

\* ---- patient_arrivals ---------------------------------------------------
\* for _ in range(n): p_id = get_patient_id();
\*     patient_arrival_times[p_id] = arrival_time; patient_queue_list.append(p_id)
\* st = [next_patient_id, patient_arrival_times, queue, issued]
RECURSIVE AddPatients(_, _, _)
AddPatients(n, arrival_time, st) ==
    IF n <= 0 THEN st
    ELSE LET p_id == GetPatientId(st.next_patient_id)
             \* the state after this iteration, evaluated before the next one starts
             next == CHOOSE r \in
                        {[next_patient_id       |-> p_id,
                          patient_arrival_times |-> DictSet(st.patient_arrival_times, p_id,
                                                            arrival_time),
                          queue                 |-> Append(st.queue, p_id),
                          issued                |-> Append(st.issued, p_id)]} : TRUE
         \* the test is always true; it makes TLC evaluate `next` here
         \* rather than as one nested expression at the end of the loop
         IN  IF next.next_patient_id = p_id
             THEN AddPatients(n - 1, arrival_time, next)
             ELSE st

\* ---- operating_room -----------------------------------------------------
WaitTimeReversed(now, arrival_time) == arrival_time - now

\* wait_time = env.now - arrival_time
WaitTime(now, arrival_time) == now - arrival_time

\* range(slots_per_week + 1): one patient more than there are slots
RECURSIVE ServePatientsOneTooMany(_, _, _)
ServePatientsOneTooMany(n, now, st) ==
    IF n < 0 \/ st.queue = <<>> THEN st
    ELSE LET popped == ListPop0(st.queue)
             arrival_time == st.patient_arrival_times[popped.item]
         IN  ServePatientsOneTooMany(n - 1, now,
                 [queue                 |-> popped.rest,
                  patient_arrival_times |-> DictPop(st.patient_arrival_times, popped.item),
                  wait_times            |-> Append(st.wait_times, WaitTime(now, arrival_time)),
                  surgeries_this_week   |-> st.surgeries_this_week + 1])

\* a week is worked only if the queue fills all its slots
RECURSIVE ServePatientsOnlyFullWeeks(_, _, _)
ServePatientsOnlyFullWeeks(n, now, st) ==
    IF n <= 0 \/ n > Len(st.queue) THEN st
    ELSE LET popped == ListPop0(st.queue)
             arrival_time == st.patient_arrival_times[popped.item]
         IN  ServePatientsOnlyFullWeeks(n - 1, now,
                 [queue                 |-> popped.rest,
                  patient_arrival_times |-> DictPop(st.patient_arrival_times, popped.item),
                  wait_times            |-> Append(st.wait_times, WaitTime(now, arrival_time)),
                  surgeries_this_week   |-> st.surgeries_this_week + 1])

\* the loop runs until the queue is empty, whatever the number of slots
RECURSIVE ServePatientsNoCap(_, _, _)
ServePatientsNoCap(n, now, st) ==
    IF st.queue = <<>> THEN st
    ELSE LET popped == ListPop0(st.queue)
             arrival_time == st.patient_arrival_times[popped.item]
         IN  ServePatientsNoCap(n - 1, now,
                 [queue                 |-> popped.rest,
                  patient_arrival_times |-> DictPop(st.patient_arrival_times, popped.item),
                  wait_times            |-> Append(st.wait_times, WaitTime(now, arrival_time)),
                  surgeries_this_week   |-> st.surgeries_this_week + 1])

\* for _ in range(slots_per_week): if patient_queue_list: pop, record the wait,
\* count the surgery; else: break
\* st = [queue, patient_arrival_times, wait_times, surgeries_this_week]
RECURSIVE ServePatients(_, _, _)
ServePatients(n, now, st) ==
    IF n <= 0 \/ st.queue = <<>> THEN st
    ELSE LET popped == ListPop0(st.queue)
             arrival_time == st.patient_arrival_times[popped.item]
         IN  ServePatients(n - 1, now,
                 [queue                 |-> popped.rest,
                  patient_arrival_times |-> DictPop(st.patient_arrival_times, popped.item),
                  wait_times            |-> Append(st.wait_times, WaitTime(now, arrival_time)),
                  surgeries_this_week   |-> st.surgeries_this_week + 1])

\* ---- run_simulation: reset of the globals --------------------------------
\* g = [patient_wait_times, weekly_queue_lengths, weekly_surgeries_performed],
\* the addresses the three globals hold; the result has the same fields and
\* the heap with the new lists in it

\* the lists are emptied where they are (list.clear()), the globals keep their addresses
ResetCollectorsInPlace(h, g) ==
    [heap |-> [a \in DOMAIN h |->
                  IF a \in {g.patient_wait_times, g.weekly_queue_lengths,
                            g.weekly_surgeries_performed} THEN <<>> ELSE h[a]],
     patient_wait_times |-> g.patient_wait_times,
     weekly_queue_lengths |-> g.weekly_queue_lengths,
     weekly_surgeries_performed |-> g.weekly_surgeries_performed]

\* patient_wait_times is not reset
ResetCollectorsButWaitTimes(h, g) ==
    LET h2 == Alloc(h)
        h3 == Alloc(h2)
    IN  [heap |-> h3,
         patient_wait_times |-> g.patient_wait_times,
         weekly_queue_lengths |-> NewAddr(h),
         weekly_surgeries_performed |-> NewAddr(h2)]

\* patient_wait_times = []; weekly_queue_lengths = []; weekly_surgeries_performed = []
ResetCollectors(h, g) ==
    LET h1 == Alloc(h)
        h2 == Alloc(h1)
        h3 == Alloc(h2)
    IN  [heap |-> h3,
         patient_wait_times |-> NewAddr(h),
         weekly_queue_lengths |-> NewAddr(h1),
         weekly_surgeries_performed |-> NewAddr(h2)]

\* the counter keeps its value from the run before
KeepNextPatientId(n) == n

\* next_patient_id = 0
ResetNextPatientId(n) == 0

\* ---- main ---------------------------------------------------------------
\* what main reads from the terminal (the web form of web_simulator.main reads
\* the same five numbers); scenario_name is a label only and is left out
Configs ==
    [arrivals           : 0..MaxArrivals,
     initial            : 0..MaxBacklog,
     slots_baseline     : 0..MaxSlots,
     intervention_slots : 0..MaxSlots,
     weeks              : -1..MaxWeeks]

\* the arguments of main's two calls of run_simulation
CallArgs(cfg, which) ==
    [arrivals |-> cfg.arrivals,
     initial  |-> cfg.initial,
     slots    |-> IF which = "baseline" THEN cfg.slots_baseline ELSE cfg.intervention_slots,
     weeks    |-> cfg.weeks]

NoArgs == [arrivals |-> 0, initial |-> 0, slots |-> 0, weeks |-> 0]

NoConfig == [arrivals |-> 0, initial |-> 0, slots_baseline |-> 0,
             intervention_slots |-> 0, weeks |-> 0]

Init ==
    /\ heap = [a \in 1..3 |-> <<>>]
    /\ patient_arrival_times = EmptyDict
    /\ patient_wait_times = 1
    /\ weekly_queue_lengths = 2
    /\ weekly_surgeries_performed = 3
    /\ next_patient_id = 0
    /\ current_patient_queue = <<>>
    /\ env = NewEnvironment
    /\ arrivals_pc = "start"
    /\ args = NoArgs
    /\ pc = "idle"
    /\ main_pc = "baseline"
    /\ config = NoConfig
    /\ baseline_results = <<>>
    /\ intervention_results = <<>>
    /\ raised = ""
    /\ returned = <<>>
    /\ issued = <<>>

\* ---- run_simulation -----------------------------------------------------
\* Entry of run_simulation, up to the two env.process calls.  The baseline
\* call is the first statement of a new execution of main, whose locals
\* baseline_results and intervention_results are not bound yet.
Enter(cfg) ==
    /\ pc = "idle"
    /\ main_pc = "intervention" => cfg = config
    /\ \E r \in {ResetCollectors(heap,
                     [patient_wait_times         |-> patient_wait_times,
                      weekly_queue_lengths       |-> weekly_queue_lengths,
                      weekly_surgeries_performed |-> weekly_surgeries_performed])} :
       \E kept \in {IF main_pc = "baseline" THEN <<>> ELSE baseline_results} :
          /\ baseline_results' = kept
          /\ patient_wait_times' = r.patient_wait_times
          /\ weekly_queue_lengths' = r.weekly_queue_lengths
          /\ weekly_surgeries_performed' = r.weekly_surgeries_performed
          /\ heap' = Collect(r.heap,
                         {r.patient_wait_times, r.weekly_queue_lengths,
                          r.weekly_surgeries_performed} \cup Refs(kept))
    /\ config' = cfg
    /\ args' = CallArgs(cfg, main_pc)
    /\ intervention_results' = <<>>
    /\ returned' = IF main_pc = "baseline" THEN <<>> ELSE returned
    /\ patient_arrival_times' = EmptyDict
    /\ next_patient_id' = ResetNextPatientId(next_patient_id)
    /\ current_patient_queue' = <<>>
    /\ arrivals_pc' = "start"
    /\ issued' = <<>>

\* env.run(until=...) accepts the stop time and starts stepping
RunSimulation(cfg) ==
    /\ Until(cfg.weeks) > 0
    /\ Enter(cfg)
    /\ env' = Schedule(StartProcesses(NewEnvironment), URGENT, Until(cfg.weeks), "until")
    /\ pc' = "running"
    /\ raised' = ""
    /\ UNCHANGED main_pc

\* env.run(until=at) raises ValueError when at <= env.now; the exception
\* leaves run_simulation and main
RunSimulationRaises(cfg) ==
    /\ Until(cfg.weeks) <= 0
    /\ Enter(cfg)
    /\ env' = StartProcesses(NewEnvironment)
    /\ pc' = "idle"
    /\ raised' = "ValueError"
    /\ main_pc' = "baseline"

\* one resumption of patient_arrivals: the first also adds the initial queue
PatientArrivals ==
    /\ pc = "running"
    /\ NextEvent(env).proc = "patient_arrivals"
    /\ \E e \in {Pop(env)} :
       \E st0 \in {[next_patient_id       |-> next_patient_id,
                    patient_arrival_times |-> patient_arrival_times,
                    queue                 |-> current_patient_queue,
                    issued                |-> issued]} :
       \E st1 \in {IF arrivals_pc = "start" THEN AddPatients(args.initial, 0, st0) ELSE st0} :
       \E st2 \in {AddPatients(args.arrivals, e.now, st1)} :
           /\ next_patient_id' = st2.next_patient_id
           /\ patient_arrival_times' = st2.patient_arrival_times
           /\ current_patient_queue' = st2.queue
           /\ issued' = st2.issued
           /\ env' = Schedule(e, NORMAL, PeriodLength, "patient_arrivals")
    /\ arrivals_pc' = "loop"
    /\ UNCHANGED <<heap, patient_wait_times, weekly_queue_lengths,
                   weekly_surgeries_performed, args, pc, main_pc, config,
                   baseline_results, intervention_results, raised, returned>>

\* one resumption of operating_room: one week of surgeries and its two records
OperatingRoom ==
    /\ pc = "running"
    /\ NextEvent(env).proc = "operating_room"
    /\ \E e \in {Pop(env)} :
       \E st \in {ServePatients(args.slots, e.now,
                     [queue                 |-> current_patient_queue,
                      patient_arrival_times |-> patient_arrival_times,
                      wait_times            |-> heap[patient_wait_times],
                      surgeries_this_week   |-> 0])} :
       LET h1 == [heap EXCEPT ![patient_wait_times] = st.wait_times]
           h2 == [h1 EXCEPT ![weekly_surgeries_performed] = Append(@, st.surgeries_this_week)]
           h3 == [h2 EXCEPT ![weekly_queue_lengths] = Append(@, Len(st.queue))]
       IN  /\ current_patient_queue' = st.queue
           /\ patient_arrival_times' = st.patient_arrival_times
           /\ heap' = h3
           /\ env' = Schedule(e, NORMAL, PeriodLength, "operating_room")
    /\ UNCHANGED <<patient_wait_times, weekly_queue_lengths, weekly_surgeries_performed,
                   next_patient_id, arrivals_pc, args, pc, main_pc, config,
                   baseline_results, intervention_results, raised, returned, issued>>

\* final_queue_length is read from the first week, weekly_queue_lengths[0]
ResultsFirstWeek ==
    LET ql == heap[weekly_queue_lengths]
    IN  [avg_wait_time        |-> Mean(heap[patient_wait_times]),
         final_queue_length   |-> IF ql # <<>> THEN ql[1] ELSE args.initial,
         total_surgeries      |-> Sum(heap[weekly_surgeries_performed]),
         weekly_queue_lengths |-> weekly_queue_lengths,
         weekly_surgeries     |-> weekly_surgeries_performed,
         wait_times           |-> patient_wait_times]

\* the results dictionary: three scalars and references to the three lists
Results ==
    LET ql == heap[weekly_queue_lengths]
    IN  [avg_wait_time        |-> Mean(heap[patient_wait_times]),
         final_queue_length   |-> IF ql # <<>> THEN ql[Len(ql)] ELSE args.initial,
         total_surgeries      |-> Sum(heap[weekly_surgeries_performed]),
         weekly_queue_lengths |-> weekly_queue_lengths,
         weekly_surgeries     |-> weekly_surgeries_performed,
         wait_times           |-> patient_wait_times]

\* a results dictionary with the lists it refers to read out of the heap
Deref(h, res) ==
    [avg_wait_time        |-> res.avg_wait_time,
     final_queue_length   |-> res.final_queue_length,
     total_surgeries      |-> res.total_surgeries,
     weekly_queue_lengths |-> h[res.weekly_queue_lengths],
     weekly_surgeries     |-> h[res.weekly_surgeries],
     wait_times           |-> h[res.wait_times]]

\* the stop event of env.run is reached: run_simulation prepares the results
\* and returns them to main, which binds them
Return ==
    /\ pc = "running"
    /\ NextEvent(env).proc = "until"
    /\ env' = Pop(env)
    /\ IF main_pc = "baseline"
       THEN /\ baseline_results' = <<Results>>
            /\ main_pc' = "intervention"
            /\ UNCHANGED intervention_results
       ELSE /\ intervention_results' = <<Results>>
            /\ main_pc' = "baseline"
            /\ UNCHANGED baseline_results
    /\ returned' = Append(returned, [args |-> args, value |-> Deref(heap, Results)])
    /\ pc' = "idle"
    /\ UNCHANGED <<heap, patient_arrival_times, patient_wait_times, weekly_queue_lengths,
                   weekly_surgeries_performed, next_patient_id, current_patient_queue,
                   arrivals_pc, args, config, raised, issued>>

Next ==
    \/ \E cfg \in Configs : RunSimulation(cfg)
    \/ \E cfg \in Configs : RunSimulationRaises(cfg)
    \/ PatientArrivals
    \/ OperatingRoom
    \/ Return

Spec == Init /\ [][Next]_vars

\* ---- properties ---------------------------------------------------------
\* the lists of the run in progress (or of the last run)
WaitTimes == heap[patient_wait_times]
QueueLengths == heap[weekly_queue_lengths]
Surgeries == heap[weekly_surgeries_performed]

IsSuffix(s, t) ==
    /\ Len(s) <= Len(t)
    /\ s = SubSeq(t, Len(t) - Len(s) + 1, Len(t))

\* C1: the service round at clock value 7k runs after the arrival batch of
\* period k: when operating_room resumes at time t, patient_arrivals has
\* already run at t (its next resumption is later than t) and the queue holds
\* the arrivals_per_week entities that arrived at t (and, at t = 0, the
\* initial queue as well).
C1_ServiceAfterArrivals ==
    [][OperatingRoom =>
         /\ arrivals_pc = "loop"
         /\ \A e \in env.events : e.proc = "patient_arrivals" => e.time > env'.now
         /\ Range(current_patient_queue) \subseteq DOMAIN patient_arrival_times
         /\ Cardinality({i \in 1..Len(current_patient_queue) :
                patient_arrival_times[current_patient_queue[i]] = env'.now})
            = args.arrivals + (IF env'.now = 0 THEN args.initial ELSE 0)]_vars

\* a service round of a later week has just served an entity that arrived in
\* that same week
C1_Witness ==
    /\ pc = "running"
    /\ env.now > 0
    /\ Len(Surgeries) = env.now \div PeriodLength + 1
    /\ WaitTimes # <<>>
    /\ WaitTimes[Len(WaitTimes)] = 0

\* C2: for every week k recorded so far, queue length k = queue length k-1
\* + arrivals per week - served in week k, the queue length before week 0
\* being the initial queue size; and the number served in week k is at most
\* the previous queue length plus the arrivals per week.
C2_QueueLengthRecurrence ==
    /\ Len(QueueLengths) = Len(Surgeries)
    /\ \A k \in 1..Len(QueueLengths) :
          LET previous == IF k = 1 THEN args.initial ELSE QueueLengths[k - 1]
          IN  /\ QueueLengths[k] = previous + args.arrivals - Surgeries[k]
              /\ Surgeries[k] <= previous + args.arrivals

\* two weeks recorded, patients served in the second while others stay queued
C2_Witness ==
    /\ Len(QueueLengths) >= 2
    /\ Surgeries[2] > 0
    /\ QueueLengths[1] > 0
    /\ QueueLengths[2] > QueueLengths[1]

\* C3: every service round serves min(slots per week, queue length at the
\* start of the round) entities, hence never more than the slots per week,
\* whatever capacity earlier weeks left unused.
C3_ServedIsMinOfCapacityAndQueue ==
    [][OperatingRoom =>
         /\ Len(heap'[weekly_surgeries_performed]) = Len(Surgeries) + 1
         /\ heap'[weekly_surgeries_performed][Len(Surgeries) + 1]
            = Min(args.slots, Len(current_patient_queue))
         /\ \A k \in 1..(Len(Surgeries) + 1) :
               heap'[weekly_surgeries_performed][k] <= args.slots]_vars

\* the first week left capacity unused and the second week served patients,
\* again fewer than the slots
C3_Witness ==
    /\ Len(Surgeries) >= 2
    /\ Surgeries[1] < args.slots
    /\ Surgeries[2] > 0
    /\ Surgeries[2] < args.slots

\* C4: the waiting times a service round appends are, in order, the clock
\* value of the round minus the arrival time recorded for each entity it takes
\* from the front of the queue, and each is >= 0.
C4_WaitTimeIsClockMinusArrival ==
    [][OperatingRoom =>
         LET old == WaitTimes
             new == heap'[patient_wait_times]
             n   == Len(new) - Len(old)
         IN  /\ n >= 0
             /\ n <= Len(current_patient_queue)
             /\ SubSeq(new, 1, Len(old)) = old
             /\ current_patient_queue' = SubSeq(current_patient_queue, n + 1,
                                                Len(current_patient_queue))
             /\ \A i \in 1..n :
                   /\ new[Len(old) + i]
                      = env'.now - patient_arrival_times[current_patient_queue[i]]
                   /\ new[Len(old) + i] >= 0]_vars

\* an entity has been served after waiting at least one week
C4_Witness ==
    /\ pc = "running"
    /\ \E i \in 1..Len(WaitTimes) : WaitTimes[i] >= PeriodLength

\* C5: no identifier is twice in the queue, and the queue is always the
\* identifiers enqueued so far, in the order they were enqueued, without the
\* ones enqueued first: entities leave in the order they came, none is taken
\* while an earlier one waits.
C5_Fifo ==
    /\ \A i, j \in 1..Len(current_patient_queue) :
          current_patient_queue[i] = current_patient_queue[j] => i = j
    /\ IsSuffix(current_patient_queue, issued)

\* several entities wait, behind entities that have left
C5_Witness ==
    /\ Len(current_patient_queue) >= 2
    /\ Len(issued) >= Len(current_patient_queue) + 2

\* C6: whenever no process is running (all processes are at a yield), the
\* identifiers in the queue are exactly the keys of patient_arrival_times; and
\* every step removes from the map exactly the identifiers it takes out of
\* the queue.
C6_QueueMatchesArrivalTimes ==
    /\ [](Range(current_patient_queue) = DOMAIN patient_arrival_times)
    /\ [][(DOMAIN patient_arrival_times) \ (DOMAIN patient_arrival_times')
          = Range(current_patient_queue) \ Range(current_patient_queue')]_vars

\* entities have been served and their entries removed, others still wait
C6_Witness ==
    /\ pc = "running"
    /\ WaitTimes # <<>>
    /\ DOMAIN patient_arrival_times # {}
    /\ Cardinality(DOMAIN patient_arrival_times) + Len(WaitTimes) = next_patient_id

\* C7: two calls in sequence with the same arguments return the same results
\* (per-week queue lengths and surgeries, waiting times, final queue length,
\* total and mean), whatever ran before them.
C7_SameArgumentsSameResults ==
    (Len(returned) = 2 /\ returned[1].args = returned[2].args)
        => returned[1].value = returned[2].value

\* both calls had the same arguments and served patients, some after a wait
C7_Witness ==
    /\ Len(returned) = 2
    /\ returned[1].args = returned[2].args
    /\ \E i \in 1..Len(returned[2].value.wait_times) :
          returned[2].value.wait_times[i] > 0

\* C8: the results a call returned stay as they were when it returned: the
\* lists the baseline results refer to are not changed by the intervention
\* run, nor the intervention results by anything later.
C8_ReturnedResultsUnchanged ==
    /\ baseline_results # <<>> =>
          Deref(heap, baseline_results[1]) = returned[1].value
    /\ intervention_results # <<>> =>
          Deref(heap, intervention_results[1]) = returned[2].value

\* the intervention run, with other slots, has recorded other values than the
\* baseline results main still holds
C8_Witness ==
    /\ baseline_results # <<>>
    /\ intervention_results # <<>>
    /\ config.slots_baseline # config.intervention_slots
    /\ returned[1].value.wait_times # <<>>
    /\ returned[1].value.weekly_queue_lengths # returned[2].value.weekly_queue_lengths

\* C9: the identifiers issued in a run are strictly increasing, and the first
\* one of every run is 1, the counter being reset when the run starts.
C9_IdentifiersIncreaseFromOne ==
    /\ \A i, j \in 1..Len(issued) : i < j => issued[i] < issued[j]
    /\ issued # <<>> => issued[1] = 1
    /\ \A i \in 1..Len(issued) : issued[i] <= next_patient_id

\* the second run of a session has issued identifiers
C9_Witness ==
    /\ main_pc = "intervention"
    /\ pc = "running"
    /\ Len(issued) >= 3

\* C10: a call with simulation_duration_weeks <= 0 does not run: no arrival
\* batch is enqueued, no service round executes, no weekly record is made.
C10_NonPositiveHorizonRejected ==
    args.weeks <= 0 =>
        /\ pc = "idle"
        /\ issued = <<>>
        /\ current_patient_queue = <<>>
        /\ QueueLengths = <<>>
        /\ Surgeries = <<>>

\* ---- the scenarios of the specification ----------------------------------
\* main run with the three documented parameter sets as well (the same slots
\* for the baseline and the intervention)
Scenario12 == [arrivals |-> 15, initial |-> 0, slots_baseline |-> 10,
               intervention_slots |-> 10, weeks |-> 4]

Scenario13 == [arrivals |-> 0, initial |-> 50, slots_baseline |-> 12,
               intervention_slots |-> 12, weeks |-> 5]

Scenario14 == [arrivals |-> 10, initial |-> 0, slots_baseline |-> 10,
               intervention_slots |-> 10, weeks |-> 3]

ScenarioConfigs == Configs \cup {Scenario12, Scenario13, Scenario14}

NextScenarios ==
    \/ \E cfg \in ScenarioConfigs : RunSimulation(cfg)
    \/ \E cfg \in ScenarioConfigs : RunSimulationRaises(cfg)
    \/ PatientArrivals
    \/ OperatingRoom
    \/ Return

SpecScenarios == Init /\ [][NextScenarios]_vars

\* C11: a run with simulation_duration_weeks = H > 0 returns exactly H weekly
\* queue lengths and exactly H weekly surgery counts.
C11_OneRecordPerWeekOfHorizon ==
    \A i \in 1..Len(returned) :
        returned[i].args.weeks > 0 =>
            /\ Len(returned[i].value.weekly_queue_lengths) = returned[i].args.weeks
            /\ Len(returned[i].value.weekly_surgeries) = returned[i].args.weeks

\* what the calls made with the arguments of a scenario returned
ReturnedFor(cfg) ==
    {returned[i].value : i \in {j \in 1..Len(returned) :
                                  returned[j].args = CallArgs(cfg, "baseline")}}

\* C12: arrivals 15, initial queue 0, slots 10, 4 weeks: the weekly queue
\* lengths are 5, 10, 15, 20 and 40 surgeries are performed in total.
C12_GrowingQueueScenario ==
    \A v \in ReturnedFor(Scenario12) :
        /\ v.weekly_queue_lengths = <<5, 10, 15, 20>>
        /\ v.total_surgeries = 40

\* C13: arrivals 0, initial queue 50, slots 12, 5 weeks: the weekly queue
\* lengths are 38, 26, 14, 2, 0, 50 surgeries are performed in total and the
\* last week of the run performs 2.
C13_DrainingBacklogScenario ==
    \A v \in ReturnedFor(Scenario13) :
        /\ v.weekly_queue_lengths = <<38, 26, 14, 2, 0>>
        /\ v.total_surgeries = 50
        /\ v.weekly_surgeries # <<>>
        /\ v.weekly_surgeries[Len(v.weekly_surgeries)] = 2

\* C14: arrivals 10, initial queue 0, slots 10, 3 weeks: the final queue
\* length is 0, 30 surgeries are performed in total, every waiting time is 0
\* and so is their mean.
C14_BalancedScenario ==
    \A v \in ReturnedFor(Scenario14) :
        /\ v.final_queue_length = 0
        /\ v.total_surgeries = 30
        /\ \A i \in 1..Len(v.wait_times) : v.wait_times[i] = 0
        /\ v.avg_wait_time.num = 0

\* ---- env.run keeps stepping -------------------------------------------------
\* env.run is a loop of env.step(): while an event is pending and the stop
\* event has not been reached, the process the next event belongs to resumes
FairSpec ==
    /\ Spec
    /\ WF_vars(PatientArrivals)
    /\ WF_vars(OperatingRoom)
    /\ WF_vars(Return)

\* C15: a run that has started completes and returns its results; no arrival
\* batch and no service round runs at a clock value above 7 * H; and the
\* clock never goes back from one event of a run to the next.
C15_RunTerminatesWithinHorizon ==
    /\ (pc = "running") ~> (pc = "idle" /\ raised = "" /\ returned # <<>>)
    /\ [][(PatientArrivals \/ OperatingRoom) =>
             env'.now <= args.weeks * PeriodLength]_vars
    /\ [][(PatientArrivals \/ OperatingRoom \/ Return) => env'.now >= env.now]_vars

\* a run of at least one week has returned, the clock at its stop time
C15_Witness ==
    /\ pc = "idle"
    /\ returned # <<>>
    /\ args.weeks > 0
    /\ env.now = args.weeks * PeriodLength + 1

\* C16: a service round with no slots, or one that finds the queue empty,
\* changes neither the queue nor the arrival-time map nor the waiting times,
\* and appends one record: 0 surgeries and the queue length as it is.
C16_EmptyRoundStillRecords ==
    [][(OperatingRoom /\ (args.slots = 0 \/ current_patient_queue = <<>>)) =>
         /\ current_patient_queue' = current_patient_queue
         /\ patient_arrival_times' = patient_arrival_times
         /\ heap'[patient_wait_times] = WaitTimes
         /\ heap'[weekly_surgeries_performed] = Append(Surgeries, 0)
         /\ heap'[weekly_queue_lengths]
            = Append(QueueLengths, Len(current_patient_queue))]_vars

\* with slots available, the round of the second week found the queue the
\* first week had emptied
C16_Witness ==
    /\ args.slots > 0
    /\ Len(Surgeries) = 2
    /\ Surgeries[1] > 0
    /\ Surgeries[2] = 0
    /\ QueueLengths[2] = 0

\* C17: the initial queue is created at time 0 as the first event of the run:
\* before any service round, patient_arrivals puts initial_queue_size
\* entities, each with arrival time 0, at the front of the empty queue, ahead
\* of the first weekly batch.
C17_InitialQueueFirst ==
    /\ []((pc = "running" /\ arrivals_pc = "start") =>
             /\ current_patient_queue = <<>>
             /\ QueueLengths = <<>>
             /\ WaitTimes = <<>>
             /\ env.now = 0)
    /\ [][(PatientArrivals /\ arrivals_pc = "start") =>
             LET b == AddPatients(args.initial, 0,
                          [next_patient_id       |-> next_patient_id,
                           patient_arrival_times |-> patient_arrival_times,
                           queue                 |-> current_patient_queue,
                           issued                |-> issued])
             IN  /\ env'.now = 0
                 /\ Len(b.queue) = args.initial
                 /\ DOMAIN b.patient_arrival_times = Range(b.queue)
                 /\ \A p \in Range(b.queue) : b.patient_arrival_times[p] = 0
                 /\ Len(current_patient_queue') = args.initial + args.arrivals
                 /\ SubSeq(current_patient_queue', 1, args.initial) = b.queue
                 /\ \A p \in Range(b.queue) : patient_arrival_times'[p] = 0]_vars

\* the initial queue and the first batch are in the queue, no round has run
C17_Witness ==
    /\ pc = "running"
    /\ arrivals_pc = "loop"
    /\ QueueLengths = <<>>
    /\ args.initial > 0
    /\ args.arrivals > 0
    /\ Len(current_patient_queue) = args.initial + args.arrivals

\* C18: when a run has returned, final_queue_length is the last weekly queue
\* length and the number of entities left in the queue, and total_surgeries
\* is the sum of the weekly surgeries (and the number of waiting times).
C18_FinalAggregates ==
    (pc = "idle" /\ raised = "" /\ returned # <<>>) =>
        LET v == returned[Len(returned)].value
        IN  /\ v.weekly_queue_lengths # <<>>
            /\ v.final_queue_length
               = v.weekly_queue_lengths[Len(v.weekly_queue_lengths)]
            /\ v.final_queue_length = Len(current_patient_queue)
            /\ v.total_surgeries = Sum(v.weekly_surgeries)
            /\ v.total_surgeries = Len(v.wait_times)

\* a run has returned with surgeries done, entities left, and a final queue
\* length that differs from the first week's
C18_Witness ==
    /\ pc = "idle"
    /\ raised = ""
    /\ returned # <<>>
    /\ returned[Len(returned)].value.total_surgeries > 0
    /\ returned[Len(returned)].value.final_queue_length > 0
    /\ returned[Len(returned)].value.final_queue_length
       # returned[Len(returned)].value.weekly_queue_lengths[1]

\* arrival batches patient_arrivals has executed in this run: it waits for
\* the week after its last batch
ArrivalBatches ==
    IF arrivals_pc = "start" THEN 0
    ELSE (CHOOSE e \in env.events : e.proc = "patient_arrivals").time \div PeriodLength

\* C19: entities served + entities waiting = identifiers issued, which is
\* initial queue + arrivals per week * batches executed once patient_arrivals
\* has started (0 before); the identifiers issued are all different and the
\* ones waiting are among them.
C19_Conservation ==
    /\ Len(WaitTimes) + Len(current_patient_queue) = next_patient_id
    /\ next_patient_id = Len(issued)
    /\ arrivals_pc = "start" => next_patient_id = 0
    /\ arrivals_pc = "loop" =>
          next_patient_id = args.initial + args.arrivals * ArrivalBatches
    /\ Cardinality(Range(issued)) = Len(issued)
    /\ Range(current_patient_queue) \subseteq Range(issued)

\* after the service round of the second week: some served, some waiting
C19_Witness ==
    /\ pc = "running"
    /\ ArrivalBatches = 2
    /\ Len(QueueLengths) = 2
    /\ WaitTimes # <<>>
    /\ current_patient_queue # <<>>
    /\ args.initial > 0

RECURSIVE PartialSum(_, _)
PartialSum(s, k) == IF k <= 0 THEN 0 ELSE s[k] + PartialSum(s, k - 1)

\* C20: of the two runs main compares (same arrivals, initial queue and
\* weeks), the one with more slots has, every week, a queue at most as long
\* and at least as many surgeries done so far.
C20_MoreSlotsNeverWorse ==
    Len(returned) = 2 =>
        \A i, j \in 1..2 :
            returned[i].args.slots <= returned[j].args.slots =>
                LET lo == returned[i].value
                    hi == returned[j].value
                IN  /\ Len(lo.weekly_queue_lengths) = Len(hi.weekly_queue_lengths)
                    /\ \A k \in 1..Len(lo.weekly_queue_lengths) :
                          /\ hi.weekly_queue_lengths[k] <= lo.weekly_queue_lengths[k]
                          /\ PartialSum(hi.weekly_surgeries, k)
                             >= PartialSum(lo.weekly_surgeries, k)

\* the two runs had different slots and the queues differed in some week
C20_Witness ==
    /\ Len(returned) = 2
    /\ returned[1].args.slots < returned[2].args.slots
    /\ \E k \in 1..Len(returned[1].value.weekly_queue_lengths) :
          returned[2].value.weekly_queue_lengths[k]
          < returned[1].value.weekly_queue_lengths[k]
    /\ returned[2].value.total_surgeries > returned[1].value.total_surgeries

====
